---- MODULE Spec2Model ----
(***************************************************************************)
(* Cart-pole environments of gym/envs/classic_control/cartpole.py:        *)
(* CartPoleEnv ("A", one Euler step per call) and AdaptedCartPoleEnv      *)
(* ("B", sub-stepped, wall bounce, angle wrap, velocity clamp).           *)
(*                                                                         *)
(* Numbers.  The program computes in IEEE doubles; the model computes in  *)
(* fixed point with SCALE units per 1.0, every product and quotient       *)
(* rounded to the nearest unit, and sin/cos by range reduction and a      *)
(* 7th-order polynomial.  Comparisons, branches, loop exits and the       *)
(* episode bookkeeping are those of the source, operator for operator.    *)
(* Python's None is the empty tuple.                                       *)
(***************************************************************************)
EXTENDS Integers, Sequences, FiniteSets, TLC

VARIABLES variant, state, steps_beyond_done, ret,
          doneSeen, postCalls, warnings,
          calls, held, switches

vars == <<variant, state, steps_beyond_done, ret,
          doneSeen, postCalls, warnings, calls, held, switches>>

(* ------------------------------ bounds -------------------------------- *)
\* step() calls per episode, per variant
MaxStepsA == 38
MaxStepsB == 120
\* the caller changes its action at most MaxSwitches times per episode,
\* and only within the first FreeSteps calls
MaxSwitches == 2
FreeSteps == 10

(* --------------------------- fixed point ------------------------------ *)
SCALE == 10^3

None == <<>>

Abs(n) == IF n < 0 THEN -n ELSE n
Min(a, b) == IF a < b THEN a ELSE b
Max(a, b) == IF a > b THEN a ELSE b

\* n / d rounded to the nearest integer (d > 0)
Rnd(n, d) == (2 * n + d) \div (2 * d)
Mul(a, b) == Rnd(a * b, SCALE)
Div(a, b) == Rnd(a * SCALE, b)

PI == Rnd(31416 * SCALE, 10000)
HALF_PI == Rnd(15708 * SCALE, 10000)
TWO_PI == 2 * PI

\* an angle in [-pi, pi) folded into [-pi/2, pi/2] with the same sine
Fold(r) ==
    IF r > HALF_PI THEN PI - r
    ELSE IF r < -HALF_PI THEN -PI - r ELSE r

\* r - r^3/6 + r^5/120 - r^7/5040, with r2 = r^2
SinSeries(r, r2) ==
    Mul(r, SCALE - Mul(Div(r2, 6 * SCALE),
           SCALE - Mul(Div(r2, 20 * SCALE),
           SCALE - Div(r2, 42 * SCALE))))

SinFolded(r) == Max(-SCALE, Min(SCALE, SinSeries(r, Mul(r, r))))

\* math.sin
Sin(t) == SinFolded(Fold(((t + PI) % TWO_PI) - PI))

\* math.cos
Cos(t) == Sin(t + HALF_PI)

(* --------------------------- configuration ---------------------------- *)
Variants == {"A", "B"}

gravity == Rnd(98 * SCALE, 10)
masscart == SCALE
masspole(v) == IF v = "A" THEN Rnd(SCALE, 10) ELSE Rnd(15 * SCALE, 100)
total_mass(v) == masspole(v) + masscart
length(v) == IF v = "A" THEN Rnd(SCALE, 2) ELSE Rnd(75 * SCALE, 100)
polemass_length(v) == Mul(masspole(v), length(v))
force_mag == 10 * SCALE
tau == Rnd(2 * SCALE, 100)
theta_threshold_radians == Rnd(12 * 2 * PI, 360)
x_threshold(v) == IF v = "A" THEN Rnd(24 * SCALE, 10) ELSE 10 * SCALE
time_step == Rnd(SCALE, 10)
restitution == Rnd(8 * SCALE, 10)

\* the configuration values the acceleration formulas read
Params(v) ==
    [gravity |-> gravity, masspole |-> masspole(v),
     total_mass |-> total_mass(v), length |-> length(v),
     polemass_length |-> polemass_length(v)]

\* literals of AdaptedCartPoleEnv._step
SUBSTEP_REF == Rnd(SCALE, 100)
VEL_LIMIT == 10 * SCALE
FOUR_THIRDS == Div(4 * SCALE, 3 * SCALE)
THETA_LIMIT_B == Mul(Rnd(2 * SCALE, 10), PI)

sim_steps == (Div(time_step, SUBSTEP_REF) + SCALE - 1) \div SCALE
simu_time == Rnd(time_step, sim_steps)

(* ------------------------------ physics ------------------------------- *)
Actions == {0, 1, 2}

\* spaces.Discrete(2).contains
contains(a) == a \in {0, 1}

Force(a) == IF a = 1 THEN force_mag ELSE -force_mag

\* temp
Temp(p, force, theta_dot, sintheta) ==
    Div(force + Mul(Mul(p.polemass_length, Mul(theta_dot, theta_dot)), sintheta),
        p.total_mass)

\* CartPoleEnv._step: thetaacc
ThetaAcc_A(p, costheta, sintheta, temp) ==
    Div(Mul(p.gravity, sintheta) - Mul(costheta, temp),
        Mul(p.length,
            FOUR_THIRDS - Div(Mul(Mul(p.masspole, costheta), costheta), p.total_mass)))

\* AdaptedCartPoleEnv._step: thetaacc
ThetaAcc_B(p, costheta, sintheta, temp) ==
    Div(Mul(p.gravity, sintheta) - Mul(costheta, temp),
        Mul(Rnd(p.length, 2),
            FOUR_THIRDS - Div(Mul(Mul(p.masspole, costheta), costheta), p.total_mass)))

\* xacc, and the three values together
WithXAcc(p, costheta, temp, thetaacc) ==
    [temp |-> temp, thetaacc |-> thetaacc,
     xacc |-> temp - Div(Mul(Mul(p.polemass_length, thetaacc), costheta), p.total_mass)]

WithThetaAcc_A(p, costheta, sintheta, temp) ==
    WithXAcc(p, costheta, temp, ThetaAcc_A(p, costheta, sintheta, temp))

WithThetaAcc_B(p, costheta, sintheta, temp) ==
    WithXAcc(p, costheta, temp, ThetaAcc_B(p, costheta, sintheta, temp))

FromTrig_A(p, force, theta_dot, costheta, sintheta) ==
    WithThetaAcc_A(p, costheta, sintheta, Temp(p, force, theta_dot, sintheta))

FromTrig_B(p, force, theta_dot, costheta, sintheta) ==
    WithThetaAcc_B(p, costheta, sintheta, Temp(p, force, theta_dot, sintheta))

\* CartPoleEnv._step: temp, thetaacc, xacc
Accel_A(p, s, force) == FromTrig_A(p, force, s[4], Cos(s[3]), Sin(s[3]))

\* AdaptedCartPoleEnv._step without the halved length
Accel_B_full_length(p, s, force) == Accel_A(p, s, force)

\* AdaptedCartPoleEnv._step: temp, thetaacc, xacc
Accel_B(p, s, force) == FromTrig_B(p, force, s[4], Cos(s[3]), Sin(s[3]))

\* Euler update of the four state variables over dt
Euler(s, acc, dt) ==
    <<s[1] + Mul(dt, s[2]), s[2] + Mul(dt, acc.xacc),
      s[3] + Mul(dt, s[4]), s[4] + Mul(dt, acc.thetaacc)>>

Done_A_nonstrict(s) ==
    \/ s[1] <= -x_threshold("A")
    \/ s[1] >= x_threshold("A")
    \/ s[3] <= -theta_threshold_radians
    \/ s[3] >= theta_threshold_radians

\* CartPoleEnv._step: done
Done_A(s) ==
    \/ s[1] < -x_threshold("A")
    \/ s[1] > x_threshold("A")
    \/ s[3] < -theta_threshold_radians
    \/ s[3] > theta_threshold_radians

\* AdaptedCartPoleEnv._step: done
Done_B(s) == Abs(s[1]) > x_threshold("B") \/ Abs(s[3]) > THETA_LIMIT_B

RECURSIVE WrapDown(_)
WrapDown(theta) == IF theta >= PI THEN WrapDown(theta - TWO_PI) ELSE theta

RECURSIVE WrapUp(_)
WrapUp(theta) == IF theta < -PI THEN WrapUp(theta + TWO_PI) ELSE theta

RECURSIVE WrapDown_gt(_)
WrapDown_gt(theta) == IF theta > PI THEN WrapDown_gt(theta - TWO_PI) ELSE theta

Wrap_pi_kept(theta) == WrapUp(WrapDown_gt(theta))

\* the two while loops that normalise theta
Wrap(theta) == WrapUp(WrapDown(theta))

\* AdaptedCartPoleEnv._is_in_range: max_value <= value >= min_value
is_in_range(value, min_value, max_value) == max_value <= value /\ value >= min_value

Clamp_none(v) == v

\* max(min(v, 10), -10)
Clamp(v) == Max(Min(v, VEL_LIMIT), -VEL_LIMIT)

\* lines 263-266: the sign of the scaled x_dot
Redirect(x, scaled) ==
    IF x > x_threshold("B") THEN -Abs(scaled)
    ELSE IF x < -x_threshold("B") THEN Abs(scaled)
    ELSE scaled

\* the bounce: x_dot after lines 257-266
Bounce(old_x, x, x_dot) ==
    IF /\ is_in_range(x, -x_threshold("B"), x_threshold("B"))
       /\ ~is_in_range(old_x, -x_threshold("B"), x_threshold("B"))
    THEN Redirect(x, Mul(x_dot, restitution))
    ELSE x_dot

\* lines 237-280: wrap, bounce and clamp of the values e of the Euler update
AfterEuler(old_x, e) ==
    [state |-> <<e[1], Clamp(Bounce(old_x, e[1], e[2])), Wrap(e[3]), Clamp(e[4])>>,
     old_x |-> old_x, euler_x_dot |-> e[2]]

\* one pass of the body of the for loop
SubStep(s, force) ==
    AfterEuler(s[1], Euler(s, Accel_B(Params("B"), s, force), simu_time))

RECURSIVE Loop(_, _, _)

\* if done: break
Continue(i, n, force) == IF Done_B(n.state) THEN n ELSE Loop(i + 1, n, force)

\* for i in range(sim_steps)
Loop(i, r, force) ==
    IF i = sim_steps THEN r ELSE Continue(i, SubStep(r.state, force), force)

\* the state update of _step: the new state, and for B the last sub-step's
\* pre-update x and pre-bounce x_dot
Physics(v, s, a) ==
    IF v = "A"
    THEN [state |-> Euler(s, Accel_A(Params("A"), s, Force(a)), tau),
          old_x |-> s[1], euler_x_dot |-> 0]
    ELSE Loop(0, [state |-> s, old_x |-> s[1], euler_x_dot |-> s[2]], Force(a))

Done(v, s) == IF v = "A" THEN Done_A(s) ELSE Done_B(s)

\* the reward of a step that is not a repeated terminal step
LiveReward(v, s) == IF v = "A" THEN SCALE ELSE THETA_LIMIT_B - Abs(s[3])

(* ------------------------- episode bookkeeping ------------------------ *)
\* lines 77-87 / 296-307 with "if steps_beyond_done >= 0: warn"
Outcome_warn_always(v, s, sbd) ==
    IF ~Done(v, s)
    THEN [sbd |-> sbd, reward |-> LiveReward(v, s), done |-> FALSE, warned |-> FALSE]
    ELSE IF sbd = None
    THEN [sbd |-> <<0>>, reward |-> LiveReward(v, s), done |-> TRUE, warned |-> FALSE]
    ELSE [sbd |-> <<sbd[1] + 1>>, reward |-> 0, done |-> TRUE, warned |-> TRUE]

\* lines 77-87 / 296-307 with the reward of the last branch left at the live reward
Outcome_reward_kept(v, s, sbd) ==
    IF ~Done(v, s)
    THEN [sbd |-> sbd, reward |-> LiveReward(v, s), done |-> FALSE, warned |-> FALSE]
    ELSE IF sbd = None
    THEN [sbd |-> <<0>>, reward |-> LiveReward(v, s), done |-> TRUE, warned |-> FALSE]
    ELSE [sbd |-> <<sbd[1] + 1>>, reward |-> LiveReward(v, s), done |-> TRUE,
          warned |-> (sbd[1] = 0)]

\* lines 77-87 / 296-307 with "Pole just fell" not recorded
Outcome_fall_unrecorded(v, s, sbd) ==
    IF ~Done(v, s)
    THEN [sbd |-> sbd, reward |-> LiveReward(v, s), done |-> FALSE, warned |-> FALSE]
    ELSE [sbd |-> sbd, reward |-> LiveReward(v, s), done |-> TRUE, warned |-> FALSE]

\* done / reward / steps_beyond_done / warning, from the state just stored
Outcome(v, s, sbd) ==
    IF ~Done(v, s)
    THEN [sbd |-> sbd, reward |-> LiveReward(v, s), done |-> FALSE, warned |-> FALSE]
    ELSE IF sbd = None
    THEN [sbd |-> <<0>>, reward |-> LiveReward(v, s), done |-> TRUE, warned |-> FALSE]
    ELSE [sbd |-> <<sbd[1] + 1>>, reward |-> 0, done |-> TRUE, warned |-> (sbd[1] = 0)]

\* a call that raises: nothing is stored, nothing is returned
Raise(what, s, sbd) ==
    [raised |-> what, state |-> s, sbd |-> sbd, reward |-> 0, done |-> FALSE,
     warned |-> FALSE, old_x |-> 0, euler_x_dot |-> 0]

Returns(ph, o) ==
    [raised |-> "none", state |-> ph.state, sbd |-> o.sbd, reward |-> o.reward,
     done |-> o.done, warned |-> o.warned, old_x |-> ph.old_x,
     euler_x_dot |-> ph.euler_x_dot]

\* lines 71-89 / 293-309 after the state ph.state has been stored
Finish(v, sbd, ph) == Returns(ph, Outcome(v, ph.state, sbd))

\* _step with the physics skipped once termination is recorded
step_frozen(v, s, sbd, a) ==
    IF ~contains(a) THEN Raise("AssertionError", s, sbd)
    ELSE IF s = None THEN Raise("TypeError", s, sbd)
    ELSE IF sbd # None
    THEN Finish(v, sbd, [state |-> s, old_x |-> s[1], euler_x_dot |-> s[2]])
    ELSE Finish(v, sbd, Physics(v, s, a))

\* _step with the action checked after the update
step_unchecked(v, s, sbd, a) ==
    IF s = None THEN Raise("TypeError", s, sbd)
    ELSE Finish(v, sbd, Physics(v, s, a))

\* CartPoleEnv._step / AdaptedCartPoleEnv._step
step(v, s, sbd, a) ==
    IF ~contains(a) THEN Raise("AssertionError", s, sbd)
    ELSE IF s = None THEN Raise("TypeError", s, sbd)
    ELSE Finish(v, sbd, Physics(v, s, a))

\* np_random.uniform(low=-0.05, high=0.05): samples of [low, high)
RESET_LOW == -Rnd(5 * SCALE, 100)
RESET_HIGH == Rnd(5 * SCALE, 100)
\* the samples drawn for the cart (x, x_dot) and for the pole (theta, theta_dot)
CartSamples == {0}
PoleSamples == {RESET_LOW, 0, RESET_HIGH - 1}

\* the states _reset can store
ResetStates(v) ==
    IF v = "A"
    THEN {<<a, b, c, d>> : a \in CartSamples, b \in CartSamples,
                           c \in PoleSamples, d \in PoleSamples}
    ELSE {<<0, 0, -Rnd(15 * SCALE, 100), 0>>}

(* ------------------------------ behaviour ----------------------------- *)
NoCall(op) ==
    [op |-> op, arg |-> 0, raised |-> "none", reward |-> 0, done |-> FALSE,
     warned |-> FALSE, post |-> FALSE, old_x |-> 0, euler_x_dot |-> 0]

MaxSteps(v) == IF v = "A" THEN MaxStepsA ELSE MaxStepsB

\* __init__
Init ==
    /\ variant \in Variants
    /\ state = None
    /\ steps_beyond_done = None
    /\ ret = NoCall("init")
    /\ doneSeen = FALSE
    /\ postCalls = 0
    /\ warnings = 0
    /\ calls = 0
    /\ held = None
    /\ switches = 0

\* _reset
Reset ==
    /\ state' \in ResetStates(variant)
    /\ steps_beyond_done' = None
    /\ ret' = NoCall("reset")
    /\ doneSeen' = FALSE
    /\ postCalls' = 0
    /\ warnings' = 0
    /\ calls' = 0
    /\ held' = None
    /\ switches' = 0
    /\ UNCHANGED variant

\* what the caller may pass next
MayPass(a) ==
    \/ ~contains(a)
    \/ state = None
    \/ /\ calls < MaxSteps(variant)
       /\ \/ held \in {None, <<a>>}
          \/ switches < MaxSwitches /\ calls < FreeSteps

\* the effect of a call _step(a) whose outcome is r
Effect(a, r, ok) ==
    /\ state' = r.state
    /\ steps_beyond_done' = r.sbd
    /\ ret' = [op |-> "step", arg |-> a, raised |-> r.raised,
               reward |-> r.reward, done |-> r.done, warned |-> r.warned,
               post |-> ok /\ doneSeen, old_x |-> r.old_x,
               euler_x_dot |-> r.euler_x_dot]
    /\ doneSeen' = (doneSeen \/ r.done)
    /\ postCalls' = IF ok /\ doneSeen THEN postCalls + 1 ELSE postCalls
    /\ warnings' = IF r.warned THEN warnings + 1 ELSE warnings
    /\ calls' = IF ok THEN calls + 1 ELSE calls
    /\ held' = IF ok THEN <<a>> ELSE held
    /\ switches' = IF ok /\ held \notin {None, <<a>>}
                   THEN switches + 1 ELSE switches

CallEffect(a, r) == Effect(a, r, r.raised = "none")

\* _step(action)
Step(a) ==
    /\ MayPass(a)
    /\ CallEffect(a, step(variant, state, steps_beyond_done, a))
    /\ UNCHANGED variant

Next == Reset \/ \E a \in Actions : Step(a)

Spec == Init /\ [][Next]_vars

(* ------------------------------- claims ------------------------------- *)
\* the last call was a step() that returned
Returned == ret.op = "step" /\ ret.raised = "none"

\* C1 (as stated): once a step() has returned done=True, every later step()
\* before the next reset() returns reward 0.0.
C1_RewardZeroAfterDone == (Returned /\ ret.post) => ret.reward = 0

\* C1 (amended): once a step() has returned done=True, every later step()
\* before the next reset() that itself returns done=True returns reward 0.0;
\* a later step() that returns done=False returns the ordinary reward
\* (1.0 in A, 0.2*pi - |theta| in B).
C1_RewardAfterDone ==
    (Returned /\ ret.post) =>
        /\ ret.done => ret.reward = 0
        /\ ~ret.done =>
              ret.reward = IF variant = "A" THEN SCALE
                           ELSE THETA_LIMIT_B - Abs(state[3])

C1_Witness == Returned /\ ret.post /\ ret.done /\ postCalls >= 2 /\ ret.reward = 0

\* C2 (as stated): for any n >= 1 step() calls after the first done=True,
\* exactly one warning has been emitted, by the first of them and by no later one.
C2_ExactlyOneWarning ==
    /\ postCalls >= 1 => warnings = 1
    /\ (Returned /\ ret.post) => (ret.warned <=> postCalls = 1)

\* C2 (amended): between resets at most one warning is emitted; it is emitted
\* by the first post-termination step() that itself returns done=True (the one
\* that takes steps_beyond_done from 0 to 1) and by no other call.
C2_AtMostOneWarning ==
    /\ warnings <= 1
    /\ warnings = 1 <=> (steps_beyond_done # None /\ steps_beyond_done[1] >= 1)
    /\ (Returned /\ ret.post) =>
          (ret.warned <=> (ret.done /\ steps_beyond_done = <<1>>))
    /\ (Returned /\ ~ret.post) => ~ret.warned

C2_Witness ==
    /\ Returned /\ ret.post /\ ret.done /\ ~ret.warned
    /\ postCalls >= 3 /\ warnings = 1

\* C3 (as stated): after a step() has returned done=True, every later step()
\* leaves the stored state unchanged.
C3_FrozenAfterDone ==
    [][(doneSeen /\ ret'.op = "step") => state' = state]_vars

\* C3 (amended): after a step() has returned done=True, a later step() with a
\* valid action still performs the physics update: the state it stores is the
\* integrator's result from the state before the call, as before termination.
C3_PhysicsAfterDone ==
    [][(doneSeen /\ ret'.op = "step" /\ ret'.raised = "none" /\ calls' = calls + 1)
          => state' = Physics(variant, state, ret'.arg).state]_vars

C3_Witness == Returned /\ ret.post /\ ret.done /\ state[1] # ret.old_x

\* C4: in B, a sub-step that takes x from inside [-x_threshold, x_threshold]
\* to outside scales x_dot by the restitution and points it back to the
\* centre, at the upper and at the lower boundary alike.
C4_BounceBothWalls ==
    (variant = "B" /\ Returned /\ Abs(ret.old_x) <= 10 * SCALE) =>
        /\ state[1] > 10 * SCALE =>
              state[2] = -Min(10 * SCALE, Abs(Mul(ret.euler_x_dot, Rnd(8 * SCALE, 10))))
        /\ state[1] < -10 * SCALE =>
              state[2] = Min(10 * SCALE, Abs(Mul(ret.euler_x_dot, Rnd(8 * SCALE, 10))))

\* C5 (as stated): in B the stored theta lies in (-pi, pi].
C5_ThetaLeftOpen ==
    (variant = "B" /\ state # None) => (-PI < state[3] /\ state[3] <= PI)

\* C5 (amended): in B the stored theta lies in [-pi, pi): -pi is included and
\* +pi is excluded.
C5_ThetaRightOpen ==
    (variant = "B" /\ state # None) => (-PI <= state[3] /\ state[3] < PI)

C5_Witness == variant = "B" /\ Returned /\ state[3] = -PI

\* C6: step(action) with an action outside {0, 1} fails before anything is
\* changed: state and steps_beyond_done are as before, no reward, no warning.
C6_InvalidActionNoEffect ==
    [][(ret'.op = "step" /\ ret'.arg \notin {0, 1}) =>
          /\ ret'.raised = "AssertionError"
          /\ state' = state
          /\ steps_beyond_done' = steps_beyond_done
          /\ warnings' = warnings
          /\ ret'.reward = 0 /\ ~ret'.warned /\ ~ret'.done]_vars

C6_Witness ==
    /\ ret.op = "step" /\ ret.raised = "AssertionError"
    /\ state # None /\ steps_beyond_done # None

\* C7: in A, a step() that returns done=False returns reward 1.0, the first
\* step() of the episode that returns done=True returns 1.0 too, and done is
\* True exactly when the stored state is strictly beyond a threshold.
C7_RewardAndDoneA ==
    (variant = "A" /\ Returned) =>
        /\ ret.done <=> \/ state[1] < -Rnd(24 * SCALE, 10)
                        \/ state[1] > Rnd(24 * SCALE, 10)
                        \/ state[3] < -Rnd(12 * 2 * PI, 360)
                        \/ state[3] > Rnd(12 * 2 * PI, 360)
        /\ ~ret.done => ret.reward = SCALE
        /\ (ret.done /\ ~ret.post) => ret.reward = SCALE

C7_Witness ==
    variant = "A" /\ Returned /\ ret.done /\ ~ret.post /\ ret.reward = SCALE

\* C8: steps_beyond_done is None exactly when no step() since the last
\* reset() has returned done=True; reset() sets it to None, the first
\* done=True step leaves None, no step() returns to None, and the counter
\* never decreases between resets.
C8_ActiveIffNoDone ==
    /\ [](steps_beyond_done = None <=> ~doneSeen)
    /\ [][/\ ret'.op = "reset" => steps_beyond_done' = None
          /\ (ret'.op = "step" /\ steps_beyond_done # None) =>
                /\ steps_beyond_done' # None
                /\ steps_beyond_done'[1] >= steps_beyond_done[1]
          /\ (ret'.op = "step" /\ ret'.done /\ steps_beyond_done = None) =>
                steps_beyond_done' = <<0>>]_vars

C8_Witness ==
    Returned /\ ret.post /\ ~ret.done /\ steps_beyond_done # None

\* C9: in B, after reset() and after every step(), -10 <= x_dot <= 10 and
\* -10 <= theta_dot <= 10.
C9_VelocityBounds ==
    (variant = "B" /\ state # None) =>
        /\ -10 * SCALE <= state[2] /\ state[2] <= 10 * SCALE
        /\ -10 * SCALE <= state[4] /\ state[4] <= 10 * SCALE

C9_Witness ==
    /\ variant = "B" /\ Returned
    /\ ret.old_x <= 10 * SCALE /\ state[1] > 10 * SCALE
    /\ Abs(state[4]) = 10 * SCALE

\* C10 (as stated): fed the same configuration, the formulas of B's sub-step
\* and the formulas of A's step give the same accelerations, for every state
\* and action.
C10_SameFormulas ==
    state # None =>
        \A v \in Variants, a \in {0, 1} :
            Accel_B(Params(v), state, Force(a)) = Accel_A(Params(v), state, Force(a))

\* C10 (amended): B's sub-step computes temp and x_acc by A's formulas and
\* theta_acc by A's formula with length / 2 in place of length: fed the same
\* configuration, B's accelerations are those of A's formulas with the length
\* halved (polemass_length unchanged).
C10_HalvedLength ==
    state # None =>
        \A v \in Variants, a \in {0, 1} :
            /\ Accel_B(Params(v), state, Force(a))
                  = Accel_A([Params(v) EXCEPT !.length = Rnd(length(v), 2)],
                            state, Force(a))
            /\ Accel_B(Params(v), state, Force(a)).temp
                  = Accel_A(Params(v), state, Force(a)).temp

C10_Witness ==
    /\ variant = "B" /\ Returned
    /\ \E a \in {0, 1} :
          Accel_B(Params("B"), state, Force(a)).thetaacc
              # Accel_A(Params("B"), state, Force(a)).thetaacc

====
